---- MODULE Spec2Model ----
(***************************************************************************)
(* Model of token-metadata/program/src/escrow/create_escrow_account.rs:    *)
(* the CreateEscrowAccount instruction processor running against a ledger  *)
(* of accounts.  One invocation runs to completion; the ledger changes     *)
(* only when the invocation returns Ok.                                    *)
(***************************************************************************)
EXTENDS Integers, Sequences, FiniteSets, TLC

VARIABLES
    ledger,     \* the writable accounts: key -> [owner, lamports, data]
    pc,         \* "idle" between invocations, "returned" right after one
    accounts,   \* the account list of the invocation that just returned
    result,     \* its ProgramResult: "Ok" or the error's name
    pre,        \* the ledger as it was when that invocation started
    successes,  \* <<mint, authority>> -> number of invocations that
                \* resolved to the pair and returned Ok
    built       \* what create_escrow_account was called with, and the
                \* Instruction it returned, when the invocation that just
                \* returned ran a built instruction; NotBuilt otherwise

vars == <<ledger, pc, accounts, result, pre, successes, built>>

----------------------------------------------------------------------------
\* Bounds of the model.

\* Largest bump seed tried by the address derivation (u8::MAX, scaled down).
MaxBump == 2

\* Lamports the richer wallet holds in the initial ledger.
StartLamports == 5

----------------------------------------------------------------------------
\* Program ids.

SystemProgramId == 60
TokenMetadataId == 61
SplTokenId == 62
\* Some program that is neither of the above.
OtherProgramId == SplTokenId + 1

\* Addresses of ordinary accounts are below SeedBase, so that a seed list is
\* read back unambiguously from its code.
SeedBase == 8

Mints == {1, 2}
Wallets == {4, 5}

\* Length of a public key in the persisted record.
PUBKEY_BYTES == 32

\* Key::TokenOwnedEscrow, the discriminant byte of the escrow record.
KeyTokenOwnedEscrow == 10

----------------------------------------------------------------------------
\* EscrowAuthority: <<"TokenOwner">> or <<"Creator", pubkey>>.

TokenOwner == <<"TokenOwner">>
Creator(k) == <<"Creator", k>>

Authorities == {TokenOwner} \cup {Creator(w) : w \in Wallets}

\* EscrowAuthority::to_seeds and find_escrow_seeds: the seed list of
\* (mint, authority): the mint, the variant's tag, and the creator's key
\* for the Creator variant.
find_escrow_seeds(mint, authority) ==
    IF authority[1] = "TokenOwner"
    THEN <<mint, 0>>
    ELSE <<mint, 1, authority[2]>>

\* The hash of a seed list: modelled collision-free as the positional code
\* of the list in base SeedBase.
RECURSIVE SeedsCode(_)
SeedsCode(seeds) ==
    IF seeds = <<>> THEN 1
    ELSE SeedsCode(SubSeq(seeds, 1, Len(seeds) - 1)) * SeedBase + seeds[Len(seeds)]

PdaHash(seeds, bump) == 1000 + SeedsCode(seeds) * (MaxBump + 1) + bump

\* An address on the curve is no program-derived address.
OnCurve(h) == h % 3 = 0

\* Pubkey::create_program_address: "none" when the hash lies on the curve.
create_program_address(seeds, bump) ==
    IF OnCurve(PdaHash(seeds, bump)) THEN -1 ELSE PdaHash(seeds, bump)

\* Pubkey::find_program_address: the highest bump that gives an address.
RECURSIVE FindFrom(_, _)
FindFrom(seeds, bump) ==
    IF bump < 0 THEN [key |-> -1, bump |-> -1]
    ELSE IF create_program_address(seeds, bump) # -1
         THEN [key |-> create_program_address(seeds, bump), bump |-> bump]
         ELSE FindFrom(seeds, bump - 1)

find_program_address(seeds) == FindFrom(seeds, MaxBump)

----------------------------------------------------------------------------
\* The read-only accounts of the ledger.  The processor never writes them.
\*   1, 2        mint accounts (3: a look-alike owned by another program)
\*   6           the mint of a fungible token
\*   11 .. 15    metadata accounts (13: owned by another program; 15: a
\*               second metadata record naming mint 1)
\*   21 .. 26    token accounts (24: owned by another program)
\*   31, 32      edition accounts (31 a master edition, 32 a print edition)

MintData == [decimals |-> 0, supply |-> 1]

FungibleMintData == [decimals |-> 2, supply |-> 100]

ReadOnlyAccounts ==
    (1  :> [owner |-> SplTokenId, lamports |-> 1, data |-> MintData]) @@
    (2  :> [owner |-> SplTokenId, lamports |-> 1, data |-> MintData]) @@
    (3  :> [owner |-> OtherProgramId, lamports |-> 1, data |-> MintData]) @@
    (6  :> [owner |-> SplTokenId, lamports |-> 1, data |-> FungibleMintData]) @@
    (11 :> [owner |-> TokenMetadataId, lamports |-> 1,
            data |-> [mint |-> 1, name |-> "a"]]) @@
    (12 :> [owner |-> TokenMetadataId, lamports |-> 1,
            data |-> [mint |-> 2, name |-> "a"]]) @@
    (13 :> [owner |-> OtherProgramId, lamports |-> 1,
            data |-> [mint |-> 1, name |-> "a"]]) @@
    (14 :> [owner |-> TokenMetadataId, lamports |-> 1,
            data |-> [mint |-> 6, name |-> "a"]]) @@
    (15 :> [owner |-> TokenMetadataId, lamports |-> 1,
            data |-> [mint |-> 1, name |-> "b"]]) @@
    (21 :> [owner |-> SplTokenId, lamports |-> 1,
            data |-> [mint |-> 1, owner |-> 4, amount |-> 1]]) @@
    (22 :> [owner |-> SplTokenId, lamports |-> 1,
            data |-> [mint |-> 1, owner |-> 4, amount |-> 0]]) @@
    (23 :> [owner |-> SplTokenId, lamports |-> 1,
            data |-> [mint |-> 2, owner |-> 5, amount |-> 1]]) @@
    (24 :> [owner |-> OtherProgramId, lamports |-> 1,
            data |-> [mint |-> 1, owner |-> 4, amount |-> 1]]) @@
    (25 :> [owner |-> SplTokenId, lamports |-> 1,
            data |-> [mint |-> 1, owner |-> 5, amount |-> 2]]) @@
    (26 :> [owner |-> SplTokenId, lamports |-> 1,
            data |-> [mint |-> 2, owner |-> 4, amount |-> 1]]) @@
    (31 :> [owner |-> TokenMetadataId, lamports |-> 1,
            data |-> [key |-> "MasterEditionV2"]]) @@
    (32 :> [owner |-> TokenMetadataId, lamports |-> 1,
            data |-> [key |-> "EditionV1"]])

MetadataKeys == {11, 12, 13, 14, 15}
MintKeys == {1, 2, 3, 6}
TokenKeys == {21, 22, 23, 24, 25, 26}
EditionKeys == {31, 32}

\* The canonical escrow address of every (mint, authority).
EscrowAddress(mint, authority) ==
    find_program_address(find_escrow_seeds(mint, authority)).key

\* A derived address that is valid but uses a smaller bump than the
\* canonical one.
NonCanonical(mint, authority) ==
    LET seeds == find_escrow_seeds(mint, authority)
        f == find_program_address(seeds)
    IN  FindFrom(seeds, f.bump - 1).key

\* The addresses a caller passes as the escrow account.
EscrowKeys ==
    {EscrowAddress(m, a) : m \in Mints, a \in Authorities}
        \cup ({NonCanonical(1, TokenOwner)} \ {-1})

\* The writable accounts: the escrow addresses and the wallets.
WritableKeys == EscrowKeys \cup Wallets

\* A system-owned account without data: not yet created.
EmptyAccount == [owner |-> SystemProgramId, lamports |-> 0, data |-> <<>>]

InitLedger ==
    [k \in WritableKeys |->
        IF k = 4 THEN [EmptyAccount EXCEPT !.lamports = StartLamports]
        ELSE IF k = 5 THEN [EmptyAccount EXCEPT !.lamports = 2]
        ELSE EmptyAccount]

\* The account that holds the system program.
SystemProgramAccount ==
    [owner |-> OtherProgramId + 1, lamports |-> 1, data |-> <<>>]

\* AccountMeta: [pubkey, is_signer].  The runtime turns each into the
\* AccountInfo of the account stored at that address.
AccountInfo(meta, L) ==
    LET a == IF meta.pubkey \in DOMAIN ReadOnlyAccounts
             THEN ReadOnlyAccounts[meta.pubkey]
             ELSE IF meta.pubkey = SystemProgramId THEN SystemProgramAccount
             ELSE L[meta.pubkey]
    IN  [key |-> meta.pubkey, is_signer |-> meta.is_signer,
         owner |-> a.owner, lamports |-> a.lamports, data |-> a.data]

----------------------------------------------------------------------------
\* The collaborators in utils and state.

assert_owned_by(account, owner) ==
    IF account.owner # owner THEN "IllegalOwner" ELSE "Ok"

assert_signer(account) ==
    IF ~account.is_signer THEN "MissingSignature" ELSE "Ok"

\* The asset classifier: the mint's supply and decimals, and the kind of
\* the edition record.
check_token_standard(mint_info, edition_info) ==
    LET unique == mint_info.data.decimals = 0 /\ mint_info.data.supply = 1
    IN  IF unique /\ edition_info.data.key = "MasterEditionV2" THEN "NonFungible"
        ELSE IF unique /\ edition_info.data.key = "EditionV1"
             THEN "NonFungibleEdition"
        ELSE IF mint_info.data.decimals = 0 THEN "FungibleAsset"
        ELSE "Fungible"

\* The bump of the canonical derivation when it gives the account's key.
assert_derivation(program_id, account, path) ==
    LET f == find_program_address(path)
    IN  IF f.key # account.key
        THEN [result |-> "DerivedKeyInvalid", bump |-> -1]
        ELSE [result |-> "Ok", bump |-> f.bump]

\* Little-endian bytes of a number.
RECURSIVE ToBytes(_, _)
ToBytes(k, n) ==
    IF n = 0 THEN <<>> ELSE <<k % 256>> \o ToBytes(k \div 256, n - 1)

RECURSIVE FromBytes(_)
FromBytes(bytes) ==
    IF bytes = <<>> THEN 0
    ELSE bytes[1] + 256 * FromBytes(Tail(bytes))

\* The persisted form of a TokenOwnedEscrow: discriminant, mint, the
\* authority's tag and (for Creator) its key, bump.
try_to_vec(toe) ==
    <<toe.key>> \o ToBytes(toe.base_token, PUBKEY_BYTES)
        \o (IF toe.authority[1] = "TokenOwner"
            THEN <<0>>
            ELSE <<1>> \o ToBytes(toe.authority[2], PUBKEY_BYTES))
        \o <<toe.bump>>

\* The record a persisted escrow account holds.
TokenOwnedEscrowFrom(data) ==
    LET tag == data[PUBKEY_BYTES + 2]
    IN  [key |-> data[1],
         base_token |-> FromBytes(SubSeq(data, 2, PUBKEY_BYTES + 1)),
         authority |->
            IF tag = 0 THEN TokenOwner
            ELSE Creator(FromBytes(SubSeq(data, PUBKEY_BYTES + 3,
                                          2 * PUBKEY_BYTES + 2))),
         bump |-> data[Len(data)]]

\* Rent-exempt balance of an account of the given size (scaled).
MinimumBalance(size) == (128 + size) \div 64

\* The allocator: creates the account at new_account's address, funded by
\* the payer and owned by program_id, or fails when the address is occupied
\* or the payer cannot fund it.  Nothing changes when it fails.
create_or_allocate_account_raw(program_id, new_account, system_account, payer, size, L) ==
    LET required == MinimumBalance(size)
    IN  IF new_account.data # <<>> \/ new_account.owner # SystemProgramId
        THEN [result |-> "AccountAlreadyInUse", ledger |-> L]
        ELSE IF payer.lamports < required
        THEN [result |-> "InsufficientFunds", ledger |-> L]
        ELSE [result |-> "Ok",
              ledger |->
                [L EXCEPT
                   ![payer.key].lamports = @ - required,
                   ![new_account.key] =
                        [owner |-> program_id, lamports |-> required,
                         data |-> [i \in 1..size |-> 0]]]]

\* sol_memcpy(dst, src, n): the first n bytes of dst become those of src.
sol_memcpy(dst, src, n) ==
    [i \in 1..Len(dst) |-> IF i <= n THEN src[i] ELSE dst[i]]

----------------------------------------------------------------------------
\* process_create_escrow_account, step by step.

\* The seven next_account_info calls: each fails when the list is used up.
AccountIntake(accts) ==
    IF Len(accts) < 7 THEN "NotEnoughAccountKeys" ELSE "Ok"

\* Mutant: any account after the seventh is taken as the authority.
is_using_authority_some_left(accts) == Len(accts) - 7 >= 1

\* Exactly one account is left after the seven fixed positions.
is_using_authority(accts) == Len(accts) - 7 = 1

\* Mutant: the payer is the creator even when an authority is passed.
creator_always_payer(accts, L) == AccountInfo(accts[6], L)

\* maybe_authority_info.unwrap_or(payer_account_info)
creator(accts, L) ==
    IF is_using_authority(accts)
    THEN AccountInfo(accts[8], L)
    ELSE AccountInfo(accts[6], L)

\* Mutant: the payer's signature is looked at before the owners.
CheckOwnersAndSigner_signer_first(program_id, metadata_info, mint_info, token_info, payer_info) ==
    IF assert_signer(payer_info) # "Ok"
    THEN assert_signer(payer_info)
    ELSE IF assert_owned_by(metadata_info, program_id) # "Ok"
    THEN assert_owned_by(metadata_info, program_id)
    ELSE IF assert_owned_by(mint_info, SplTokenId) # "Ok"
    THEN assert_owned_by(mint_info, SplTokenId)
    ELSE assert_owned_by(token_info, SplTokenId)

\* The owners of metadata, mint and token account, then the payer's
\* signature.
CheckOwnersAndSigner(program_id, metadata_info, mint_info, token_info, payer_info) ==
    IF assert_owned_by(metadata_info, program_id) # "Ok"
    THEN assert_owned_by(metadata_info, program_id)
    ELSE IF assert_owned_by(mint_info, SplTokenId) # "Ok"
    THEN assert_owned_by(mint_info, SplTokenId)
    ELSE IF assert_owned_by(token_info, SplTokenId) # "Ok"
    THEN assert_owned_by(token_info, SplTokenId)
    ELSE assert_signer(payer_info)

\* Mutant: the metadata's mint is not compared with the mint account.
CheckMetadataMint_skipped(metadata, mint_info) == "Ok"

\* Mint account passed in must be the mint of the metadata account.
CheckMetadataMint(metadata, mint_info) ==
    IF metadata.mint # mint_info.key THEN "MintMismatch" ELSE "Ok"

\* Mutant: a print edition is taken for the unique token itself.
CheckNonFungible_editions_too(mint_info, edition_info) ==
    IF check_token_standard(mint_info, edition_info)
            \notin {"NonFungible", "NonFungibleEdition"}
    THEN "MustBeNonFungible"
    ELSE "Ok"

\* Only non-fungible tokens can have escrow accounts.
CheckNonFungible(mint_info, edition_info) ==
    IF check_token_standard(mint_info, edition_info) # "NonFungible"
    THEN "MustBeNonFungible"
    ELSE "Ok"

\* Mutant: a balance of exactly 1 is refused.
CheckTokenAccount_off_by_one(token_account, metadata, mint_info) ==
    IF token_account.mint # mint_info.key THEN "MintMismatch"
    ELSE IF token_account.amount <= 1 THEN "NotEnoughTokens"
    ELSE IF token_account.mint # metadata.mint THEN "MintMismatch"
    ELSE "Ok"

\* Mutant: an empty token account is accepted.
CheckTokenAccount_zero_accepted(token_account, metadata, mint_info) ==
    IF token_account.mint # mint_info.key THEN "MintMismatch"
    ELSE IF token_account.amount < 0 THEN "NotEnoughTokens"
    ELSE IF token_account.mint # metadata.mint THEN "MintMismatch"
    ELSE "Ok"

\* Mutant: the balance is not looked at.
CheckTokenAccount_no_balance(token_account, metadata, mint_info) ==
    IF token_account.mint # mint_info.key THEN "MintMismatch"
    ELSE IF token_account.mint # metadata.mint THEN "MintMismatch"
    ELSE "Ok"

\* Mutant: the token account's mint is not compared with the mint account.
CheckTokenMintAndBalance_balance_only(token_account, mint_info) ==
    IF token_account.amount < 1 THEN "NotEnoughTokens" ELSE "Ok"

\* The token account's mint against the mint account, then its balance.
CheckTokenMintAndBalance(token_account, mint_info) ==
    IF token_account.mint # mint_info.key THEN "MintMismatch"
    ELSE IF token_account.amount < 1 THEN "NotEnoughTokens"
    ELSE "Ok"

\* The token account's mint against the metadata's mint.
CheckTokenMetadataMint(token_account, metadata) ==
    IF token_account.mint # metadata.mint THEN "MintMismatch" ELSE "Ok"

\* The three checks on the token account, in the code's order.
CheckTokenAccount(token_account, metadata, mint_info) ==
    IF CheckTokenMintAndBalance(token_account, mint_info) # "Ok"
    THEN CheckTokenMintAndBalance(token_account, mint_info)
    ELSE CheckTokenMetadataMint(token_account, metadata)

\* Mutant: the owner's variant is chosen whoever the creator is.
creator_type_always_token_owner(token_owner, creator_key) == TokenOwner

\* Mutant: the creator is recorded even when it owns the token.
creator_type_always_creator(token_owner, creator_key) == Creator(creator_key)

\* The authority variant of a creation.
creator_type(token_owner, creator_key) ==
    IF token_owner = creator_key THEN TokenOwner ELSE Creator(creator_key)

\* Mutant: the bump found by the derivation is not stored.
toe_without_bump(mint_key, authority, bump) ==
    [key |-> KeyTokenOwnedEscrow, base_token |-> mint_key,
     authority |-> authority, bump |-> 0]

\* The record to persist.
toe(mint_key, authority, bump) ==
    [key |-> KeyTokenOwnedEscrow, base_token |-> mint_key,
     authority |-> authority, bump |-> bump]

\* Mutant: the record is written before the allocator's result is looked at.
AllocateAndWrite_write_first(program_id, escrow_info, system_info, payer_info, serialized_data, L) ==
    LET created == create_or_allocate_account_raw(
                       program_id, escrow_info, system_info, payer_info,
                       Len(serialized_data), L)
        written == [created.ledger EXCEPT
                      ![escrow_info.key].data = serialized_data]
    IN  [result |-> created.result, ledger |-> written]

\* Mutant: the allocator's error is dropped and the record written anyway.
AllocateAndWrite_unchecked(program_id, escrow_info, system_info, payer_info, serialized_data, L) ==
    LET created == create_or_allocate_account_raw(
                       program_id, escrow_info, system_info, payer_info,
                       Len(serialized_data), L)
    IN  [result |-> "Ok",
         ledger |->
            [created.ledger EXCEPT
               ![escrow_info.key].data =
                    sol_memcpy(@, serialized_data, Len(serialized_data))]]

\* Create the account, then copy the record into it.
AllocateAndWrite(program_id, escrow_info, system_info, payer_info, serialized_data, L) ==
    LET created == create_or_allocate_account_raw(
                       program_id, escrow_info, system_info, payer_info,
                       Len(serialized_data), L)
    IN  IF created.result # "Ok"
        THEN [result |-> created.result, ledger |-> L]
        ELSE [result |-> "Ok",
              ledger |->
                [created.ledger EXCEPT
                   ![escrow_info.key].data =
                        sol_memcpy(@, serialized_data, Len(serialized_data))]]

\* Everything up to the token account checks: the first error, or "Ok".
Validate(program_id, accts, L) ==
    IF AccountIntake(accts) # "Ok" THEN AccountIntake(accts)
    ELSE
    LET metadata_account_info == AccountInfo(accts[2], L)
        mint_account_info == AccountInfo(accts[3], L)
        token_account_info == AccountInfo(accts[4], L)
        edition_account_info == AccountInfo(accts[5], L)
        payer_account_info == AccountInfo(accts[6], L)
        authorized == CheckOwnersAndSigner(
                          program_id, metadata_account_info, mint_account_info,
                          token_account_info, payer_account_info)
        metadata == metadata_account_info.data
        token_account == token_account_info.data
    IN  IF authorized # "Ok" THEN authorized
        ELSE IF CheckMetadataMint(metadata, mint_account_info) # "Ok"
        THEN CheckMetadataMint(metadata, mint_account_info)
        ELSE IF CheckNonFungible(mint_account_info, edition_account_info) # "Ok"
        THEN CheckNonFungible(mint_account_info, edition_account_info)
        ELSE CheckTokenAccount(token_account, metadata, mint_account_info)

\* The invocation gets as far as comparing the token account's mint with
\* the metadata's: every check before that comparison has passed.
ReachesTokenMetadataMint(program_id, accts, L) ==
    /\ AccountIntake(accts) = "Ok"
    /\ CheckOwnersAndSigner(program_id, AccountInfo(accts[2], L),
            AccountInfo(accts[3], L), AccountInfo(accts[4], L),
            AccountInfo(accts[6], L)) = "Ok"
    /\ CheckMetadataMint(AccountInfo(accts[2], L).data,
                         AccountInfo(accts[3], L)) = "Ok"
    /\ CheckNonFungible(AccountInfo(accts[3], L), AccountInfo(accts[5], L))
            = "Ok"
    /\ CheckTokenMintAndBalance(AccountInfo(accts[4], L).data,
                                AccountInfo(accts[3], L)) = "Ok"

\* The authority variant the invocation resolves to.
ResolvedAuthority(accts, L) ==
    creator_type(AccountInfo(accts[4], L).data.owner, creator(accts, L).key)

process_create_escrow_account(program_id, accts, L) ==
    IF Validate(program_id, accts, L) # "Ok"
    THEN [result |-> Validate(program_id, accts, L), ledger |-> L]
    ELSE
    LET escrow_account_info == AccountInfo(accts[1], L)
        mint_account_info == AccountInfo(accts[3], L)
        payer_account_info == AccountInfo(accts[6], L)
        system_account_info == AccountInfo(accts[7], L)
        authority == ResolvedAuthority(accts, L)
        escrow_seeds == find_escrow_seeds(mint_account_info.key, authority)
        derivation == assert_derivation(TokenMetadataId, escrow_account_info,
                                        escrow_seeds)
        serialized_data ==
            try_to_vec(toe(mint_account_info.key, authority, derivation.bump))
    IN  IF derivation.result # "Ok"
        THEN [result |-> derivation.result, ledger |-> L]
        ELSE AllocateAndWrite(program_id, escrow_account_info,
                              system_account_info, payer_account_info,
                              serialized_data, L)

----------------------------------------------------------------------------
\* The account lists callers submit.

Meta(k, s) == [pubkey |-> k, is_signer |-> s]

\* What follows the seven fixed accounts: nothing, an explicit authority,
\* or an authority and one more account.
Tails ==
    {<<>>}
        \cup {<<Meta(w, s)>> : w \in Wallets, s \in BOOLEAN}
        \cup {<<Meta(5, TRUE), Meta(4, TRUE)>>}

Payers == {Meta(4, TRUE), Meta(5, TRUE), Meta(5, FALSE)}

\* An account has one signer flag in a transaction, however often the list
\* names it.
ConsistentFlags(a) ==
    \A i, j \in 1..Len(a) :
        a[i].pubkey = a[j].pubkey => a[i].is_signer = a[j].is_signer

FullLists ==
    {a \in
        {<<Meta(e, FALSE), Meta(d, FALSE), Meta(m, FALSE), Meta(t, FALSE),
           Meta(ed, FALSE), p, Meta(SystemProgramId, FALSE)>> \o tail :
            e \in EscrowKeys, d \in MetadataKeys, m \in MintKeys,
            t \in TokenKeys, ed \in EditionKeys, p \in Payers, tail \in Tails} :
        ConsistentFlags(a)}

\* A list that stops before the system program account.
ShortLists == {SubSeq(a, 1, 6) : a \in {b \in FullLists : Len(b) = 7}}

AccountLists == FullLists \cup ShortLists

----------------------------------------------------------------------------
\* The instruction builder.

\* Option<Pubkey>
None == <<>>
Some(k) == <<k>>

\* AccountMeta::new and AccountMeta::new_readonly
AccountMeta_new(pubkey, is_signer) ==
    [pubkey |-> pubkey, is_signer |-> is_signer, is_writable |-> TRUE]

AccountMeta_new_readonly(pubkey, is_signer) ==
    [pubkey |-> pubkey, is_signer |-> is_signer, is_writable |-> FALSE]

\* Mutant: the authority is appended without the signer flag.
create_escrow_account_unsigned_authority(program_id, escrow_account, metadata_account, mint_account, token_account, edition_account, payer_account, authority) ==
    [program_id |-> program_id,
     accounts |->
        << AccountMeta_new(escrow_account, FALSE),
           AccountMeta_new_readonly(metadata_account, FALSE),
           AccountMeta_new_readonly(mint_account, FALSE),
           AccountMeta_new_readonly(token_account, FALSE),
           AccountMeta_new_readonly(edition_account, FALSE),
           AccountMeta_new(payer_account, TRUE),
           AccountMeta_new_readonly(SystemProgramId, FALSE) >>
        \o (IF authority # None
            THEN << AccountMeta_new_readonly(authority[1], FALSE) >>
            ELSE << >>),
     data |-> <<"CreateEscrowAccount">>]

\* The Instruction for a creation: the seven fixed accounts, the authority
\* pushed after them when there is one, and the instruction's tag as data.
create_escrow_account(program_id, escrow_account, metadata_account, mint_account, token_account, edition_account, payer_account, authority) ==
    [program_id |-> program_id,
     accounts |->
        << AccountMeta_new(escrow_account, FALSE),
           AccountMeta_new_readonly(metadata_account, FALSE),
           AccountMeta_new_readonly(mint_account, FALSE),
           AccountMeta_new_readonly(token_account, FALSE),
           AccountMeta_new_readonly(edition_account, FALSE),
           AccountMeta_new(payer_account, TRUE),
           AccountMeta_new_readonly(SystemProgramId, FALSE) >>
        \o (IF authority # None
            THEN << AccountMeta_new_readonly(authority[1], TRUE) >>
            ELSE << >>),
     data |-> <<"CreateEscrowAccount">>]

\* What a client calls the builder with.
BuilderArgs ==
    [escrow_account : EscrowKeys, metadata_account : MetadataKeys,
     mint_account : MintKeys, token_account : TokenKeys,
     edition_account : EditionKeys, payer_account : Wallets,
     authority : {None} \cup {Some(w) : w \in Wallets}]

Build(a) ==
    create_escrow_account(TokenMetadataId, a.escrow_account,
        a.metadata_account, a.mint_account, a.token_account,
        a.edition_account, a.payer_account, a.authority)

\* The account list the processor receives for an instruction: the
\* transaction is signed by every account the instruction marks as signer.
Loaded(metas) ==
    [i \in 1..Len(metas) |-> Meta(metas[i].pubkey, metas[i].is_signer)]

NotBuilt == [args |-> <<>>, instruction |-> <<>>]

----------------------------------------------------------------------------
\* The ledger and its invocations.

Init ==
    /\ ledger = InitLedger
    /\ pc = "idle"
    /\ accounts = <<>>
    /\ result = "none"
    /\ pre = InitLedger
    /\ successes = <<>>
    /\ built = NotBuilt

\* The runtime runs one CreateEscrowAccount instruction to completion.  A
\* failed instruction leaves the ledger as it was.
Invoke(accts) ==
    /\ pc = "idle"
    /\ LET r == process_create_escrow_account(TokenMetadataId, accts, ledger)
           pair == <<accts[3].pubkey, ResolvedAuthority(accts, ledger)>>
       IN  /\ result' = r.result
           /\ ledger' = IF r.result = "Ok" THEN r.ledger ELSE ledger
           /\ successes' =
                IF r.result # "Ok" THEN successes
                ELSE IF pair \in DOMAIN successes
                THEN [successes EXCEPT ![pair] = @ + 1]
                ELSE successes @@ (pair :> 1)
    /\ accounts' = accts
    /\ pre' = ledger
    /\ pc' = "returned"

\* The caller has seen the result.
Return ==
    /\ pc = "returned"
    /\ pc' = "idle"
    /\ accounts' = <<>>
    /\ result' = "none"
    /\ pre' = ledger
    /\ built' = NotBuilt
    /\ UNCHANGED <<ledger, successes>>

\* A caller submits any of the account lists.
Submit ==
    /\ pc = "idle"
    /\ built' = NotBuilt
    /\ \E accts \in AccountLists : Invoke(accts)

\* A client builds the instruction with create_escrow_account and submits
\* it.
SubmitBuilt ==
    /\ pc = "idle"
    /\ \E a \in BuilderArgs :
          /\ built' = [args |-> a, instruction |-> Build(a)]
          /\ Invoke(Loaded(Build(a).accounts))

Next ==
    \/ Submit
    \/ SubmitBuilt
    \/ Return

Spec == Init /\ [][Next]_vars

----------------------------------------------------------------------------
\* What the properties below read off an account list and a ledger.

Returned == pc = "returned"

\* The accounts named at the fixed positions.
EscrowKeyOf(accts) == accts[1].pubkey
MetadataOf(accts) == ReadOnlyAccounts[accts[2].pubkey].data
MintKeyOf(accts) == accts[3].pubkey
TokenOf(accts) == ReadOnlyAccounts[accts[4].pubkey].data
PayerOf(accts) == accts[6]

\* The effective creator: the eighth account of a list of exactly eight,
\* the payer otherwise.
EffectiveCreator(accts) ==
    IF Len(accts) = 8 THEN accts[8] ELSE accts[6]

\* The variant the specification prescribes for a list.
ExpectedAuthority(accts) ==
    IF TokenOf(accts).owner = EffectiveCreator(accts).pubkey
    THEN TokenOwner
    ELSE Creator(EffectiveCreator(accts).pubkey)

ExpectedPair(accts) == <<MintKeyOf(accts), ExpectedAuthority(accts)>>

\* The list passes every check before the authority is resolved.
Validated(accts) == Validate(TokenMetadataId, accts, InitLedger) = "Ok"

\* An account that has been created: it has data or left the system program.
Initialized(acct) == acct.data # <<>> \/ acct.owner # SystemProgramId

\* The record stored at an escrow address.
RecordAt(L, k) == TokenOwnedEscrowFrom(L[k].data)

Count(pair) == IF pair \in DOMAIN successes THEN successes[pair] ELSE 0

----------------------------------------------------------------------------
\* C1 (as stated): once an invocation has succeeded for a (mint, authority)
\* pair, every later invocation that resolves to the same pair fails at the
\* allocation step, and nothing is overwritten; no pair succeeds twice.
C1_AtMostOnce_AsStated ==
    /\ \A pair \in DOMAIN successes : successes[pair] <= 1
    /\ (Returned /\ Validated(accounts) /\ result # "Ok"
            /\ Count(ExpectedPair(accounts)) >= 1)
        => (result = "AccountAlreadyInUse" /\ ledger = pre)

\* C1 (amended): no pair succeeds twice; a later invocation that resolves to
\* a pair already created fails and leaves the ledger as it was: at the
\* allocation step when it passes the pair's derived address, and at the
\* derivation check (DerivedKeyInvalid) when it passes any other address.
C1_AtMostOnce ==
    /\ \A pair \in DOMAIN successes : successes[pair] <= 1
    /\ (Returned /\ Validated(accounts) /\ result # "Ok"
            /\ Count(ExpectedPair(accounts)) >= 1)
        => /\ ledger = pre
           /\ IF EscrowKeyOf(accounts)
                    = EscrowAddress(MintKeyOf(accounts),
                                    ExpectedAuthority(accounts))
              THEN result = "AccountAlreadyInUse"
              ELSE result = "DerivedKeyInvalid"

\* A second attempt for a created pair, at the pair's address, is refused
\* by the allocator.
C1_Witness ==
    /\ Returned /\ Validated(accounts)
    /\ Count(ExpectedPair(accounts)) = 1
    /\ result = "AccountAlreadyInUse"
    /\ Initialized(pre[EscrowKeyOf(accounts)])

\* C2: whenever the processor succeeds, metadata.mint, the mint account's
\* address and the token account's mint are identical, the classifier said
\* NonFungible for (mint, edition), and the token balance was at least 1;
\* the ledger changes only in such an invocation.
C2_SuccessImpliesValidInputs ==
    (Returned /\ (result = "Ok" \/ ledger # pre))
        => /\ Len(accounts) >= 7
           /\ MetadataOf(accounts).mint = MintKeyOf(accounts)
           /\ TokenOf(accounts).mint = MintKeyOf(accounts)
           /\ TokenOf(accounts).mint = MetadataOf(accounts).mint
           /\ check_token_standard(AccountInfo(accounts[3], pre),
                                   AccountInfo(accounts[5], pre))
                = "NonFungible"
           /\ TokenOf(accounts).amount >= 1

\* A creation from a token account holding more than one token.
C2_Witness ==
    /\ Returned /\ result = "Ok"
    /\ TokenOf(accounts).amount > 1
    /\ Initialized(ledger[EscrowKeyOf(accounts)])

\* C3: with the effective creator the explicit authority when one is
\* supplied and the payer otherwise, the variant is TokenOwner iff the token
\* account's owner is the effective creator, and Creator(effective creator)
\* otherwise; that variant decides the accepted address and is persisted.
C3_AuthorityResolution ==
    (Returned /\ Validated(accounts))
        => LET expected == EscrowAddress(MintKeyOf(accounts),
                                         ExpectedAuthority(accounts))
           IN  /\ (result = "DerivedKeyInvalid")
                    <=> (EscrowKeyOf(accounts) # expected)
               /\ result = "Ok"
                    => RecordAt(ledger, EscrowKeyOf(accounts)).authority
                            = ExpectedAuthority(accounts)

\* A creation by an explicit authority that is not the token's owner.
C3_Witness ==
    /\ Returned /\ result = "Ok" /\ Len(accounts) = 8
    /\ TokenOf(accounts).owner # accounts[8].pubkey
    /\ RecordAt(ledger, EscrowKeyOf(accounts)).authority
            = Creator(accounts[8].pubkey)

C5_CreatorSigned ==
    (Returned /\ result = "Ok")
        => LET rec == RecordAt(ledger, EscrowKeyOf(accounts))
           IN  /\ Len(accounts) = 8 => accounts[8].is_signer
               /\ rec.authority[1] = "Creator"
                    => /\ rec.authority[2] # TokenOf(accounts).owner
                       /\ \E i \in 1..Len(accounts) :
                            /\ accounts[i].pubkey = rec.authority[2]
                            /\ accounts[i].is_signer

\* The lamports held by the writable accounts.
RECURSIVE SumLamports(_, _)
SumLamports(L, keys) ==
    IF keys = {} THEN 0
    ELSE LET k == CHOOSE x \in keys : TRUE
         IN  L[k].lamports + SumLamports(L, keys \ {k})

\* C6: an invocation that returns an error leaves every account as it was,
\* and the processor itself has written nothing by then; the payer is
\* debited once, by the rent of the record, in exactly the invocations that
\* create and fill the escrow account; no other account changes.
C6_AllOrNothing ==
    /\ SumLamports(ledger, WritableKeys) = SumLamports(InitLedger, WritableKeys)
    /\ Returned =>
        LET r == process_create_escrow_account(TokenMetadataId, accounts, pre)
            e == EscrowKeyOf(accounts)
            p == PayerOf(accounts).pubkey
        IN  /\ result # "Ok" => (ledger = pre /\ r.ledger = pre)
            /\ result = "Ok" =>
                /\ ~Initialized(pre[e])
                /\ ledger[e].owner = TokenMetadataId
                /\ ledger[e].data = try_to_vec(RecordAt(ledger, e))
                /\ ledger[e].lamports = MinimumBalance(Len(ledger[e].data))
                /\ ledger[p] = [pre[p] EXCEPT
                                  !.lamports = @ - ledger[e].lamports]
                /\ \A k \in WritableKeys \ {e, p} : ledger[k] = pre[k]

\* An invocation refused by the allocator for lack of funds.
C6_Witness ==
    /\ Returned /\ result = "InsufficientFunds"
    /\ ledger = pre
    /\ \E k \in EscrowKeys : Initialized(ledger[k])

\* A well-formed escrow account: owned by this program, holding a record
\* with key TokenOwnedEscrow, at the program-derived address of the seeds of
\* (record.base_token, record.authority) with record.bump, the canonical
\* bump, its data exactly the encoded record.
WellFormedEscrow(L, k) ==
    LET rec == RecordAt(L, k)
        seeds == find_escrow_seeds(rec.base_token, rec.authority)
    IN  /\ L[k].owner = TokenMetadataId
        /\ rec.key = KeyTokenOwnedEscrow
        /\ k = create_program_address(seeds, rec.bump)
        /\ rec.bump = find_program_address(seeds).bump
        /\ Len(L[k].data) = Len(try_to_vec(rec))
        /\ L[k].data = try_to_vec(rec)

\* C7: in every ledger state each initialized escrow account is well
\* formed, and no account is created at another address.  Every account is
\* examined between invocations, and again when an invocation has written
\* it.
C7_EscrowWellFormed ==
    \A k \in WritableKeys :
        ((pc = "idle" \/ ledger[k] # pre[k]) /\ Initialized(ledger[k]))
            => (k \in EscrowKeys /\ WellFormedEscrow(ledger, k))

\* Escrows of both variants exist.
C7_Witness ==
    /\ \E k \in EscrowKeys :
            Initialized(ledger[k]) /\ RecordAt(ledger, k).authority[1] = "Creator"
    /\ \E k \in EscrowKeys :
            Initialized(ledger[k]) /\ RecordAt(ledger, k).authority = TokenOwner

\* The end-to-end scenario without explicit authority: seven accounts, a
\* non-fungible mint M shown by the edition, metadata and token account of
\* M, a balance of 1, a signing payer, the escrow address derived for
\* (M, TokenOwner), not yet created, and a payer able to fund it.
Scenario(accts, L) ==
    /\ Len(accts) = 7
    /\ ReadOnlyAccounts[accts[2].pubkey].owner = TokenMetadataId
    /\ ReadOnlyAccounts[accts[3].pubkey].owner = SplTokenId
    /\ ReadOnlyAccounts[accts[4].pubkey].owner = SplTokenId
    /\ check_token_standard(AccountInfo(accts[3], L), AccountInfo(accts[5], L))
            = "NonFungible"
    /\ MetadataOf(accts).mint = MintKeyOf(accts)
    /\ TokenOf(accts).mint = MintKeyOf(accts)
    /\ TokenOf(accts).amount = 1
    /\ PayerOf(accts).is_signer
    /\ EscrowKeyOf(accts) = EscrowAddress(MintKeyOf(accts), TokenOwner)
    /\ ~Initialized(L[EscrowKeyOf(accts)])
    /\ L[PayerOf(accts).pubkey].lamports
            >= MinimumBalance(Len(try_to_vec(toe(MintKeyOf(accts), TokenOwner, 0))))

ScenarioSucceeded ==
    /\ result = "Ok"
    /\ RecordAt(ledger, EscrowKeyOf(accounts))
            = [key |-> KeyTokenOwnedEscrow,
               base_token |-> MintKeyOf(accounts),
               authority |-> TokenOwner,
               bump |-> find_program_address(
                            find_escrow_seeds(MintKeyOf(accounts), TokenOwner)).bump]

\* C8 (as stated): the scenario succeeds and persists
\* {mint: M, authority: TokenOwner, bump} for every payer P and owner O.
C8_EndToEnd_AsStated ==
    (Returned /\ Scenario(accounts, pre)) => ScenarioSucceeded

\* C8 (amended): the scenario succeeds and persists
\* {mint: M, authority: TokenOwner, bump} when the payer P is the token
\* account's owner O; when P differs from O the invocation resolves to
\* Creator(P) and fails with DerivedKeyInvalid.
C8_EndToEnd ==
    (Returned /\ Scenario(accounts, pre))
        => IF PayerOf(accounts).pubkey = TokenOf(accounts).owner
           THEN ScenarioSucceeded
           ELSE result = "DerivedKeyInvalid" /\ ledger = pre

\* The scenario, run by the owner of the token.
C8_Witness ==
    /\ Returned /\ Scenario(accounts, pre)
    /\ PayerOf(accounts).pubkey = TokenOf(accounts).owner
    /\ ScenarioSucceeded

\* What the runtime makes of an invocation: its result, and the ledger
\* after it.
Run(accts, L) ==
    LET r == process_create_escrow_account(TokenMetadataId, accts, L)
    IN  [result |-> r.result,
         ledger |-> IF r.result = "Ok" THEN r.ledger ELSE L]

\* The invocation that just returned (from pre) and the invocation of b
\* have the same results and leave the same ledger in either order.
SameInEitherOrder(b) ==
    LET b_first == Run(b, pre)
        b_second == Run(b, ledger)
        a_second == Run(accounts, b_first.ledger)
    IN  /\ b_second.result = b_first.result
        /\ a_second.result = result
        /\ a_second.ledger = b_second.ledger

\* The lists that resolve to a pair.  Any other list returns its error
\* before the processor reads a writable account.
ResolvingLists == {b \in FullLists : Validated(b)}

\* The rent an invocation pays for the record of its pair.
RentOf(accts) ==
    MinimumBalance(Len(try_to_vec(
        toe(MintKeyOf(accts), ExpectedAuthority(accts), 0))))

\* C9 (as stated): two invocations that resolve to different mints or
\* different authority variants have the same outcome and effect in either
\* order, also when both name the same payer.  (When neither succeeds the
\* ledger stays as it is, so one of the two is taken to have succeeded.)
C9_Independence_AsStated ==
    (Returned /\ result = "Ok")
        => \A b \in ResolvingLists :
              ExpectedPair(b) # ExpectedPair(accounts) => SameInEitherOrder(b)

\* C9 (amended): two invocations that resolve to different mints or
\* different authority variants have the same outcome and effect in either
\* order, provided they name different payers or the common payer's balance
\* covers the rent of both escrow accounts.
C9_Independence ==
    (Returned /\ result = "Ok")
        => \A b \in ResolvingLists :
              (/\ ExpectedPair(b) # ExpectedPair(accounts)
               /\ \/ PayerOf(b).pubkey # PayerOf(accounts).pubkey
                  \/ pre[PayerOf(accounts).pubkey].lamports
                        >= RentOf(accounts) + RentOf(b))
                  => SameInEitherOrder(b)

\* Two creations for different pairs, paid by the same payer, both succeed.
C9_Witness ==
    /\ Returned /\ result = "Ok"
    /\ \E b \in ResolvingLists :
          /\ ExpectedPair(b) # ExpectedPair(accounts)
          /\ PayerOf(b).pubkey = PayerOf(accounts).pubkey
          /\ Run(b, ledger).result = "Ok"
          /\ Run(b, pre).result = "Ok"

\* The owner and signer checks pass for a list.
OwnersAndSignerOk(accts) ==
    /\ Len(accts) >= 7
    /\ ReadOnlyAccounts[accts[2].pubkey].owner = TokenMetadataId
    /\ ReadOnlyAccounts[accts[3].pubkey].owner = SplTokenId
    /\ ReadOnlyAccounts[accts[4].pubkey].owner = SplTokenId
    /\ PayerOf(accts).is_signer

\* The three cross-checks: metadata.mint with the mint account's address,
\* the token account's mint with the mint account's address, the token
\* account's mint with metadata.mint.
CrossCheck(c, accts) ==
    IF c = 1 THEN MetadataOf(accts).mint = MintKeyOf(accts)
    ELSE IF c = 2 THEN TokenOf(accts).mint = MintKeyOf(accts)
    ELSE TokenOf(accts).mint = MetadataOf(accts).mint

\* C10 (as stated): each of the three mint cross-checks can be made to fail
\* on its own, the other two passing, and the invocation then returns
\* MintMismatch.
C10_MintConsistency_AsStated ==
    \A c \in 1..3 :
        \E b \in FullLists :
            /\ OwnersAndSignerOk(b)
            /\ ~CrossCheck(c, b)
            /\ \A d \in (1..3) \ {c} : CrossCheck(d, b)
            /\ Run(b, ledger).result = "MintMismatch"

\* C10 (amended): each of the first two cross-checks can be made to fail
\* with the other of the two passing, and the invocation then returns
\* MintMismatch: always for metadata.mint against the mint account, and for
\* the token account's mint against the mint account when the asset is
\* non-fungible.  MintMismatch is returned only when one of these two
\* fails; the third comparison never fails on its own.
C10_MintConsistency ==
    (Returned /\ OwnersAndSignerOk(accounts))
        => /\ ~CrossCheck(1, accounts) => result = "MintMismatch"
           /\ (/\ CrossCheck(1, accounts)
               /\ check_token_standard(AccountInfo(accounts[3], pre),
                                       AccountInfo(accounts[5], pre))
                    = "NonFungible"
               /\ ~CrossCheck(2, accounts))
                => result = "MintMismatch"
           /\ result = "MintMismatch"
                => (~CrossCheck(1, accounts) \/ ~CrossCheck(2, accounts))

\* The first check fails with the second passing, and another list makes
\* the second fail with the first passing; both give MintMismatch.
C10_Witness ==
    /\ Returned /\ OwnersAndSignerOk(accounts)
    /\ ~CrossCheck(1, accounts) /\ CrossCheck(2, accounts)
    /\ result = "MintMismatch"
    /\ \E b \in FullLists :
          /\ OwnersAndSignerOk(b)
          /\ CrossCheck(1, b) /\ ~CrossCheck(2, b)
          /\ Run(b, ledger).result = "MintMismatch"

----------------------------------------------------------------------------
\* The classifier's verdict on the mint and edition accounts of a list.
Classified(accts) ==
    check_token_standard(AccountInfo(accts[3], InitLedger),
                         AccountInfo(accts[5], InitLedger))

\* C11: whenever the account list has its shape, the owner checks, the
\* payer's signature and the metadata-mint check pass, and the classifier
\* returns anything other than NonFungible for (mint, edition), the
\* invocation returns MustBeNonFungible and changes nothing, whatever the
\* token account's balance, mint and owner are.
C11_FungibleRejected ==
    (/\ Returned /\ OwnersAndSignerOk(accounts)
     /\ CrossCheck(1, accounts)
     /\ Classified(accounts) # "NonFungible")
        => /\ result = "MustBeNonFungible"
           /\ ledger = pre
           /\ \A t \in TokenKeys :
                 ReadOnlyAccounts[t].owner = SplTokenId
                    => Run([accounts EXCEPT ![4] = Meta(t, FALSE)], pre).result
                            = "MustBeNonFungible"

\* A print edition is refused although the token account is empty and of
\* another mint.
C11_Witness ==
    /\ Returned /\ OwnersAndSignerOk(accounts)
    /\ CrossCheck(1, accounts)
    /\ Classified(accounts) = "NonFungibleEdition"
    /\ TokenOf(accounts).amount = 0
    /\ TokenOf(accounts).mint # MintKeyOf(accounts)
    /\ result = "MustBeNonFungible"

\* Every check other than the balance passes for a list.
AllButBalanceOk(accts) ==
    /\ OwnersAndSignerOk(accts)
    /\ CrossCheck(1, accts) /\ CrossCheck(2, accts)
    /\ Classified(accts) = "NonFungible"

\* The results of an invocation that went on to resolve the authority.
AfterResolution ==
    {"Ok", "DerivedKeyInvalid", "AccountAlreadyInUse", "InsufficientFunds"}

\* C12: with every other check passing, a token balance of exactly 0 makes
\* the invocation fail with NotEnoughTokens, and a balance of exactly 1, or
\* more, is accepted: the invocation goes on to resolve the authority and
\* to check the escrow address against it.
C12_BalanceBoundary ==
    (Returned /\ AllButBalanceOk(accounts))
        => /\ TokenOf(accounts).amount = 0
                => (result = "NotEnoughTokens" /\ ledger = pre)
           /\ TokenOf(accounts).amount >= 1
                => /\ result \in AfterResolution
                   /\ (result = "DerivedKeyInvalid")
                        <=> (EscrowKeyOf(accounts)
                                # EscrowAddress(MintKeyOf(accounts),
                                                ExpectedAuthority(accounts)))

\* An empty token account is refused where the same list with a token
\* account holding exactly one token creates the escrow.
C12_Witness ==
    /\ Returned /\ AllButBalanceOk(accounts)
    /\ TokenOf(accounts).amount = 0
    /\ result = "NotEnoughTokens"
    /\ \E t \in TokenKeys :
          /\ ReadOnlyAccounts[t].data
                = [TokenOf(accounts) EXCEPT !.amount = 1]
          /\ ReadOnlyAccounts[t].owner = SplTokenId
          /\ Run([accounts EXCEPT ![4] = Meta(t, FALSE)], pre).result = "Ok"

----------------------------------------------------------------------------
\* The invocation that just returned ran a built instruction.
WasBuilt == Returned /\ built # NotBuilt

\* C13: create_escrow_account returns the accounts in the fixed order
\* escrow (writable, no signer), metadata, mint, token account, edition
\* (each read-only, no signer), payer (writable, signer), system program
\* (read-only, no signer): exactly 7 when authority is None, and exactly 8,
\* with the authority (read-only, signer) appended last, when it is Some.
\* The processor's intake accepts every such list, and takes an appended
\* authority, and nothing else, as the explicit authority.
C13_BuilderShape ==
    WasBuilt =>
        LET a == built.args
            metas == built.instruction.accounts
        IN  /\ SubSeq(metas, 1, 7)
                = << [pubkey |-> a.escrow_account,
                      is_signer |-> FALSE, is_writable |-> TRUE],
                     [pubkey |-> a.metadata_account,
                      is_signer |-> FALSE, is_writable |-> FALSE],
                     [pubkey |-> a.mint_account,
                      is_signer |-> FALSE, is_writable |-> FALSE],
                     [pubkey |-> a.token_account,
                      is_signer |-> FALSE, is_writable |-> FALSE],
                     [pubkey |-> a.edition_account,
                      is_signer |-> FALSE, is_writable |-> FALSE],
                     [pubkey |-> a.payer_account,
                      is_signer |-> TRUE, is_writable |-> TRUE],
                     [pubkey |-> SystemProgramId,
                      is_signer |-> FALSE, is_writable |-> FALSE] >>
            /\ a.authority = None => Len(metas) = 7
            /\ a.authority # None
                    => /\ Len(metas) = 8
                       /\ metas[8] = [pubkey |-> a.authority[1],
                                      is_signer |-> TRUE, is_writable |-> FALSE]
            /\ built.instruction.program_id = TokenMetadataId
            /\ Len(accounts) = Len(metas)
            /\ \A i \in 1..Len(metas) :
                    /\ accounts[i].pubkey = metas[i].pubkey
                    /\ accounts[i].is_signer = metas[i].is_signer
            /\ result # "NotEnoughAccountKeys"
            /\ is_using_authority(accounts) <=> (a.authority # None)
            /\ creator(accounts, pre).key
                    = (IF a.authority # None THEN a.authority[1]
                       ELSE a.payer_account)
            /\ result = "Ok"
                    => RecordAt(ledger, EscrowKeyOf(accounts)).authority
                        = creator_type(TokenOf(accounts).owner,
                                       IF a.authority # None THEN a.authority[1]
                                       ELSE a.payer_account)

\* An instruction built with Some(authority), the authority not the owner
\* of the token, creates the escrow of Creator(authority).
C13_Witness ==
    /\ WasBuilt /\ built.args.authority # None
    /\ Len(built.instruction.accounts) = 8
    /\ built.args.authority[1] # built.args.payer_account
    /\ result = "Ok"
    /\ RecordAt(ledger, EscrowKeyOf(accounts)).authority
            = Creator(built.args.authority[1])

----------------------------------------------------------------------------
\* C14: two invocations that resolve to the same (mint, authority) accept
\* the same escrow address and persist the same bump, whoever pays,
\* whichever token account and metadata account they name, and whatever
\* the ledger holds when they run.  An invocation whose escrow address was
\* accepted is compared with every other one of its pair, run on the
\* initial ledger, on the ledger before it and on the ledger after it: the
\* other is accepted at that address and at no other.
C14_Determinism ==
    (Returned /\ Validated(accounts) /\ result # "DerivedKeyInvalid")
        => \A b \in ResolvingLists :
             ExpectedPair(b) = ExpectedPair(accounts)
                => \A L \in {InitLedger, pre, ledger} :
                     LET rb == process_create_escrow_account(
                                    TokenMetadataId, b, L)
                     IN  /\ (rb.result # "DerivedKeyInvalid")
                                <=> (EscrowKeyOf(b) = EscrowKeyOf(accounts))
                         /\ (rb.result = "Ok" /\ result = "Ok")
                                => RecordAt(rb.ledger, EscrowKeyOf(b)).bump
                                    = RecordAt(ledger, EscrowKeyOf(accounts)).bump

\* Two creations of one pair, by different payers from different token and
\* metadata accounts, one of them on the initial ledger and one on a later
\* ledger, at the same address with the same bump.
C14_Witness ==
    /\ Returned /\ result = "Ok" /\ pre # InitLedger
    /\ \E b \in ResolvingLists :
          /\ ExpectedPair(b) = ExpectedPair(accounts)
          /\ PayerOf(b).pubkey # PayerOf(accounts).pubkey
          /\ b[4].pubkey # accounts[4].pubkey
          /\ b[2].pubkey # accounts[2].pubkey
          /\ EscrowKeyOf(b) = EscrowKeyOf(accounts)
          /\ Run(b, InitLedger).result = "Ok"
          /\ RecordAt(Run(b, InitLedger).ledger, EscrowKeyOf(b)).bump
                = RecordAt(ledger, EscrowKeyOf(accounts)).bump

----------------------------------------------------------------------------
\* The errors of the steps after the account intake, in the
\* specification's order.
StepErrors ==
    << "IllegalOwner", "IllegalOwner", "IllegalOwner", "MissingSignature",
       "MintMismatch", "MustBeNonFungible", "MintMismatch", "NotEnoughTokens",
       "DerivedKeyInvalid", "AccountAlreadyInUse", "InsufficientFunds" >>

\* Whether step i would fail for a list of at least seven accounts on a
\* ledger, looked at on its own.
WouldFail(i, accts, L) ==
    CASE i = 1 -> ReadOnlyAccounts[accts[2].pubkey].owner # TokenMetadataId
      [] i = 2 -> ReadOnlyAccounts[accts[3].pubkey].owner # SplTokenId
      [] i = 3 -> ReadOnlyAccounts[accts[4].pubkey].owner # SplTokenId
      [] i = 4 -> ~PayerOf(accts).is_signer
      [] i = 5 -> MetadataOf(accts).mint # MintKeyOf(accts)
      [] i = 6 -> Classified(accts) # "NonFungible"
      [] i = 7 -> TokenOf(accts).mint # MintKeyOf(accts)
      [] i = 8 -> TokenOf(accts).amount < 1
      [] i = 9 -> EscrowKeyOf(accts)
                    # EscrowAddress(MintKeyOf(accts), ExpectedAuthority(accts))
      [] i = 10 -> Initialized(L[EscrowKeyOf(accts)])
      [] OTHER -> L[PayerOf(accts).pubkey].lamports < RentOf(accts)

\* The error of the first step from i on that fails, or "Ok".
RECURSIVE FirstFailure(_, _, _)
FirstFailure(i, accts, L) ==
    IF i > Len(StepErrors) THEN "Ok"
    ELSE IF WouldFail(i, accts, L) THEN StepErrors[i]
    ELSE FirstFailure(i + 1, accts, L)

\* How many of the steps would fail.
FailureCount(accts, L) ==
    Cardinality({i \in 1..Len(StepErrors) : WouldFail(i, accts, L)})

\* C15: when several checks would fail for one input, the invocation
\* reports the error of the earliest failing step in the order: account
\* intake, IllegalOwner for metadata, mint, token account, MissingSignature
\* for the payer, MintMismatch for metadata against mint, MustBeNonFungible,
\* MintMismatch for token account against mint, NotEnoughTokens, the
\* derivation error, the allocation errors; and after a failure nothing
\* further is done: the ledger is as it was.
C15_FailFast ==
    Returned =>
        /\ Len(accounts) < 7 => result = "NotEnoughAccountKeys"
        /\ Len(accounts) >= 7
                => result = FirstFailure(1, accounts, pre)
        /\ result # "Ok" => ledger = pre

\* The payer's missing signature is reported although the mint comparison,
\* the classifier, the balance and the escrow address would fail as well.
C15_Witness ==
    /\ Returned /\ Len(accounts) >= 7
    /\ result = "MissingSignature"
    /\ FailureCount(accounts, pre) >= 5
    /\ pre # InitLedger

----------------------------------------------------------------------------
\* The address the invocation must pass: that of the mint account's address
\* and the resolved authority.
ExpectedAddress(accts) ==
    EscrowAddress(MintKeyOf(accts), ExpectedAuthority(accts))

\* The list with another account in the escrow position.
WithEscrow(accts, k) == [accts EXCEPT ![1] = Meta(k, FALSE)]

\* C16: an invocation that reaches the derivation check with an escrow
\* address other than the program-derived address of the seeds of (mint
\* account address, resolved authority) fails with DerivedKeyInvalid, and
\* nothing has been allocated or written by then; in particular the address
\* derived for the other variant, for another mint or for another Creator
\* is refused.
C16_DerivationCheck ==
    (Returned /\ Validated(accounts))
        => /\ EscrowKeyOf(accounts) # ExpectedAddress(accounts)
                => /\ result = "DerivedKeyInvalid"
                   /\ ledger = pre
                   /\ process_create_escrow_account(
                            TokenMetadataId, accounts, pre).ledger = pre
           /\ \A m \in Mints, a \in Authorities :
                (/\ <<m, a>> # ExpectedPair(accounts)
                 /\ EscrowKeyOf(accounts) = EscrowAddress(m, a))
                    => result = "DerivedKeyInvalid"

\* An invocation resolving to a Creator is refused at the address of another
\* Creator of its mint; at the address of the owner's variant and at the
\* address of its Creator for another mint it is refused as well.
C16_Witness ==
    /\ Returned /\ Validated(accounts)
    /\ ExpectedAuthority(accounts)[1] = "Creator"
    /\ \E w \in Wallets :
          /\ Creator(w) # ExpectedAuthority(accounts)
          /\ EscrowKeyOf(accounts)
                = EscrowAddress(MintKeyOf(accounts), Creator(w))
    /\ result = "DerivedKeyInvalid"
    /\ Run(WithEscrow(accounts, EscrowAddress(MintKeyOf(accounts), TokenOwner)),
           pre).result = "DerivedKeyInvalid"
    /\ \E m \in Mints \ {MintKeyOf(accounts)} :
          Run(WithEscrow(accounts,
                         EscrowAddress(m, ExpectedAuthority(accounts))),
              pre).result = "DerivedKeyInvalid"
    /\ ~Initialized(pre[ExpectedAddress(accounts)])

----------------------------------------------------------------------------
\* C17: the third mint comparison, token account's mint against
\* metadata.mint, fails in no execution that reaches it: such an execution
\* has found metadata.mint and the token account's mint both equal to the
\* mint account's address.  No invocation returns MintMismatch from there:
\* whenever MintMismatch is returned the comparison was not reached.
C17_ThirdCheckNeverFails ==
    Returned =>
        /\ ReachesTokenMetadataMint(TokenMetadataId, accounts, pre)
                => /\ MetadataOf(accounts).mint = MintKeyOf(accounts)
                   /\ TokenOf(accounts).mint = MintKeyOf(accounts)
                   /\ CheckTokenMetadataMint(TokenOf(accounts),
                                             MetadataOf(accounts)) = "Ok"
                   /\ result # "MintMismatch"
        /\ result = "MintMismatch"
                => ~ReachesTokenMetadataMint(TokenMetadataId, accounts, pre)

\* An invocation reaches the comparison and passes it, where a list with
\* another metadata account is stopped with MintMismatch before it.
C17_Witness ==
    /\ Returned
    /\ ReachesTokenMetadataMint(TokenMetadataId, accounts, pre)
    /\ result = "Ok"
    /\ \E d \in MetadataKeys :
          LET b == [accounts EXCEPT ![2] = Meta(d, FALSE)]
          IN  /\ TokenOf(b).mint # MetadataOf(b).mint
              /\ Run(b, pre).result = "MintMismatch"
              /\ ~ReachesTokenMetadataMint(TokenMetadataId, b, pre)

====
